---- MODULE Spec2Model ----
(***************************************************************************)
(* A model of crevr: the Claude log parser (src/src/parser.ts), the        *)
(* revert server (src/unnamed/part_000, the RevertServer class) and the    *)
(* change tracker it calls (change-tracker.ts, modelled from spec.md 4.5   *)
(* and 5, its source not being among the files).                           *)
(*                                                                         *)
(* Strings are sequences of tokens; "_" is a whitespace token, so that     *)
(* trim() and the truthiness of a string are computed, not assumed.        *)
(* A timestamp is a natural number, 0 standing for a missing timestamp.    *)
(* An id `${turnId}-${timestamp}-write-${n}` is the tuple of its parts.    *)
(***************************************************************************)
EXTENDS Integers, Sequences, FiniteSets, TLC

VARIABLES
    dirExists,        \* whether ~/.claude/projects/<project> exists
    files,            \* session id -> the session file (NoFile when absent)
    disk,             \* target path -> content of the working tree file
    revertedChanges,  \* ChangeTracker's in-memory ledger (ids)
    stateFile,        \* the persisted ledger (~/.crevr)
    changes,          \* RevertServer.changes
    clients,          \* the clients connected to the WebSocket server
    req,              \* client -> the request it has in flight
    sent,             \* the message the server sent in the last step
    loads,            \* the load requests served so far
    shown,            \* the change ids the connected clients have been sent
    plog,             \* parser specification: the log under test
    pout,             \* parser specification: what the parser returned
    pscan             \* scan specification: the loop of getSessionWithTurns

vars == <<dirExists, files, disk, revertedChanges, stateFile, changes,
          clients, req, sent, loads, shown, plog, pout, pscan>>

serverVars == <<dirExists, files, disk, revertedChanges, stateFile, changes,
                clients, req, sent, loads, shown>>

parserVars == <<plog, pout, pscan>>

----------------------------------------------------------------------------
(* Bounds *)

MaxLines == 3

----------------------------------------------------------------------------
(* Strings *)

S(t) == <<t>>

Empty == <<>>

RECURSIVE TrimStart(_)
TrimStart(s) ==
    IF s # <<>> /\ Head(s) = "_" THEN TrimStart(Tail(s)) ELSE s

RECURSIVE TrimEnd(_)
TrimEnd(s) ==
    IF s # <<>> /\ s[Len(s)] = "_" THEN TrimEnd(SubSeq(s, 1, Len(s) - 1)) ELSE s

Trim(s) == TrimEnd(TrimStart(s))

Truthy(s) == s # <<>>

----------------------------------------------------------------------------
(* Log lines and content blocks *)

TextBlock(t) ==
    [type |-> "text", text |-> t, name |-> "", file_path |-> "",
     content |-> Empty, edits |-> <<>>]

ToolResult ==
    [type |-> "tool_result", text |-> Empty, name |-> "", file_path |-> "",
     content |-> Empty, edits |-> <<>>]

ToolUse(name, path, content, edits) ==
    [type |-> "tool_use", text |-> Empty, name |-> name, file_path |-> path,
     content |-> content, edits |-> edits]

EditOp(old, new, all) ==
    [oldString |-> old, newString |-> new, replaceAll |-> all]

\* A line on which JSON.parse throws.
BadLine ==
    [kind |-> "bad", type |-> "", timestamp |-> 0, form |-> "none",
     text |-> Empty, blocks |-> <<>>]

\* The line `null`: JSON.parse returns null.
NullLine ==
    [kind |-> "null", type |-> "", timestamp |-> 0, form |-> "none",
     text |-> Empty, blocks |-> <<>>]

StringEntry(type, ts, text) ==
    [kind |-> "entry", type |-> type, timestamp |-> ts, form |-> "string",
     text |-> text, blocks |-> <<>>]

ArrayEntry(type, ts, blocks) ==
    [kind |-> "entry", type |-> type, timestamp |-> ts, form |-> "array",
     text |-> Empty, blocks |-> blocks]

NoContentEntry(type, ts) ==
    [kind |-> "entry", type |-> type, timestamp |-> ts, form |-> "none",
     text |-> Empty, blocks |-> <<>>]

\* entry.message?.content as a condition: a missing message or content and
\* the empty string are falsy, an array is truthy.
HasContent(entry) ==
    \/ entry.form = "array"
    \/ entry.form = "string" /\ Truthy(entry.text)

----------------------------------------------------------------------------
(* Ids and change records *)

NoMessage == <<"No message">>

\* `${sessionId}-turn-${n}`
TurnId(sessionId, n) == <<sessionId, n>>

\* `${turnId}-${timestamp}-${tool}-${changeIndex}`
TurnChangeId(turnId, ts, tool, idx) == <<turnId[1], turnId[2], ts, tool, idx>>

\* `${timestamp}-${tool}`: the ids of parseLogFile carry no turn and no index.
FlatChangeId(ts, tool) == <<"", -1, ts, tool, 0>>

FileChange(id, ts, type, path, content, ops, latest) ==
    [id |-> id, timestamp |-> ts, type |-> type, filePath |-> path,
     newContent |-> content, changes |-> ops, sessionId |-> "",
     isLatestSession |-> latest, userMessage |-> Empty]

FileTools == {"Write", "Edit", "MultiEdit"}

ToolTag(name) ==
    CASE name = "Write" -> "write"
      [] name = "Edit" -> "edit"
      [] OTHER -> "multiedit"

ChangeType(name) == IF name = "Write" THEN "write" ELSE "edit"

----------------------------------------------------------------------------
(* parser.ts: the flat view *)

\* The first Write, Edit or MultiEdit invocation of the entry, or nothing.
RECURSIVE FirstFileTool(_)
FirstFileTool(blocks) ==
    IF blocks = <<>> THEN <<>>
    ELSE IF Head(blocks).type = "tool_use" /\ Head(blocks).name \in FileTools
         THEN <<Head(blocks)>>
         ELSE FirstFileTool(Tail(blocks))

extractFileChange(entry) ==
    IF entry.form # "array" THEN <<>>
    ELSE LET hit == FirstFileTool(entry.blocks) IN
         IF hit = <<>> THEN <<>>
         ELSE LET b == hit[1] IN
              <<FileChange(FlatChangeId(entry.timestamp, ToolTag(b.name)),
                           entry.timestamp, ChangeType(b.name), b.file_path,
                           IF b.name = "Write" THEN b.content ELSE Empty,
                           IF b.name = "Write" THEN <<>> ELSE b.edits,
                           "undef")>>

\* What one line contributes to parseLogFile: the whole body of the loop is
\* inside the try, so a line JSON.parse rejects and the line `null` (whose
\* entry.type throws) are both skipped.
parseLine(line) ==
    IF line.kind # "entry" THEN <<>>
    ELSE IF line.type = "assistant" /\ HasContent(line)
         THEN extractFileChange(line)
         ELSE <<>>

RECURSIVE parseLogFile(_)
parseLogFile(lines) ==
    IF lines = <<>> THEN <<>>
    ELSE parseLine(Head(lines)) \o parseLogFile(Tail(lines))

----------------------------------------------------------------------------
(* parser.ts: the turn view *)

RECURSIVE HasTextBlock(_)
HasTextBlock(blocks) ==
    IF blocks = <<>> THEN FALSE
    ELSE \/ Head(blocks).type = "text" /\ Truthy(Head(blocks).text)
            /\ Truthy(Trim(Head(blocks).text))
         \/ HasTextBlock(Tail(blocks))

RECURSIVE HasToolResult(_)
HasToolResult(blocks) ==
    IF blocks = <<>> THEN FALSE
    ELSE Head(blocks).type = "tool_result" \/ HasToolResult(Tail(blocks))

\* The classification without the loop of lines 477-481: any tool_result
\* block makes the entry an echo.
isToolResultEntryIgnoresText(entry) ==
    IF ~HasContent(entry) THEN FALSE
    ELSE IF entry.form = "string" THEN FALSE
    ELSE HasToolResult(entry.blocks)

isToolResultEntry(entry) ==
    IF ~HasContent(entry) THEN FALSE
    ELSE IF entry.form = "string" THEN FALSE
    ELSE IF HasTextBlock(entry.blocks) THEN FALSE
    ELSE HasToolResult(entry.blocks)

RECURSIVE FirstText(_)
FirstText(blocks) ==
    IF blocks = <<>> THEN NoMessage
    ELSE IF Head(blocks).type = "text" /\ Truthy(Head(blocks).text)
            /\ Truthy(Trim(Head(blocks).text))
         THEN Head(blocks).text
         ELSE FirstText(Tail(blocks))

extractUserMessage(entry) ==
    IF ~HasContent(entry) THEN NoMessage
    ELSE IF entry.form = "string"
         THEN (IF Truthy(Trim(entry.text)) THEN Trim(entry.text) ELSE NoMessage)
         ELSE FirstText(entry.blocks)

\* textParts.join('\n\n'); "nn" is the blank-line separator.
RECURSIVE JoinTexts(_)
JoinTexts(blocks) ==
    IF blocks = <<>> THEN Empty
    ELSE LET b == Head(blocks)
             rest == JoinTexts(Tail(blocks))
         IN IF b.type = "text" /\ Truthy(b.text) /\ Truthy(Trim(b.text))
            THEN (IF rest = Empty THEN Trim(b.text)
                  ELSE Trim(b.text) \o <<"nn">> \o rest)
            ELSE rest

extractAssistantText(entry) ==
    IF ~HasContent(entry) THEN Empty
    ELSE IF entry.form = "string" THEN Trim(entry.text)
    ELSE JoinTexts(entry.blocks)

\* The loop of extractAllFileChanges with a MultiEdit case that keeps only the
\* first of the invocation's edits.
RECURSIVE FileChangesFromFirstEdit(_, _, _, _, _)
FileChangesFromFirstEdit(blocks, idx, ts, turnId, latest) ==
    IF blocks = <<>> THEN <<>>
    ELSE LET b == Head(blocks) IN
         IF b.type # "tool_use"
         THEN FileChangesFromFirstEdit(Tail(blocks), idx, ts, turnId, latest)
         ELSE LET n == idx + 1
                  made == IF b.name \in FileTools /\ b.file_path # ""
                          THEN <<FileChange(
                                   TurnChangeId(turnId, ts, ToolTag(b.name), n),
                                   ts, ChangeType(b.name), b.file_path,
                                   IF b.name = "Write" THEN b.content ELSE Empty,
                                   IF b.name = "Write" THEN <<>>
                                   ELSE SubSeq(b.edits, 1, 1),
                                   latest)>>
                          ELSE <<>>
              IN made \o FileChangesFromFirstEdit(Tail(blocks), n, ts, turnId,
                                                  latest)

\* The loop of extractAllFileChanges from block i on, changeIndex being idx.
RECURSIVE FileChangesFrom(_, _, _, _, _)
FileChangesFrom(blocks, idx, ts, turnId, latest) ==
    IF blocks = <<>> THEN <<>>
    ELSE LET b == Head(blocks) IN
         IF b.type # "tool_use"
         THEN FileChangesFrom(Tail(blocks), idx, ts, turnId, latest)
         ELSE LET n == idx + 1
                  made == IF b.name \in FileTools /\ b.file_path # ""
                          THEN <<FileChange(
                                   TurnChangeId(turnId, ts, ToolTag(b.name), n),
                                   ts, ChangeType(b.name), b.file_path,
                                   IF b.name = "Write" THEN b.content ELSE Empty,
                                   IF b.name = "Write" THEN <<>> ELSE b.edits,
                                   latest)>>
                          ELSE <<>>
              IN made \o FileChangesFrom(Tail(blocks), n, ts, turnId, latest)

extractAllFileChanges(entry, turnId, isLatestSession) ==
    IF ~HasContent(entry) \/ entry.form # "array" THEN <<>>
    ELSE FileChangesFrom(entry.blocks, 0, entry.timestamp, turnId,
                         IF isLatestSession THEN "true" ELSE "false")

Turn(id, ts, msg, isLatest) ==
    [id |-> id, timestamp |-> ts, userMessage |-> msg,
     assistantMessage |-> Empty, fileChanges |-> <<>>,
     isLatestSession |-> isLatest]

\* The state of the scan: the emitted turns, the open turn (a sequence of
\* length 0 or 1), the turn counter, and whether an entry made the loop throw.
ScanInit == [turns |-> <<>>, cur |-> <<>>, counter |-> 0, threw |-> FALSE]

\* The user entry handled without the test of line 388: the open turn is
\* emitted whether or not it has file changes.
OnUserKeepsEmptyTurns(st, entry, sessionId, isLatest, now) ==
    IF entry.type = "user" /\ ~isToolResultEntry(entry)
    THEN [st EXCEPT
            !.turns = IF st.cur # <<>>
                      THEN Append(st.turns, st.cur[1]) ELSE st.turns,
            !.counter = st.counter + 1,
            !.cur = <<Turn(TurnId(sessionId, st.counter + 1),
                           IF entry.timestamp # 0 THEN entry.timestamp ELSE now,
                           extractUserMessage(entry), isLatest)>>]
    ELSE st

\* The user entry handled with the new turn inside the test of line 388: an
\* open turn without file changes stays open and keeps its message.
OnUserReusesEmptyTurn(st, entry, sessionId, isLatest, now) ==
    IF entry.type = "user" /\ ~isToolResultEntry(entry)
       /\ (st.cur = <<>> \/ st.cur[1].fileChanges # <<>>)
    THEN [st EXCEPT
            !.turns = IF st.cur # <<>>
                      THEN Append(st.turns, st.cur[1]) ELSE st.turns,
            !.counter = st.counter + 1,
            !.cur = <<Turn(TurnId(sessionId, st.counter + 1),
                           IF entry.timestamp # 0 THEN entry.timestamp ELSE now,
                           extractUserMessage(entry), isLatest)>>]
    ELSE st

\* The user entry handled without the test of lines 384-386: a tool_result
\* entry closes the open turn like a human message.
OnUserOnEveryUserEntry(st, entry, sessionId, isLatest, now) ==
    IF entry.type = "user"
    THEN [st EXCEPT
            !.turns = IF st.cur # <<>> /\ st.cur[1].fileChanges # <<>>
                      THEN Append(st.turns, st.cur[1]) ELSE st.turns,
            !.counter = st.counter + 1,
            !.cur = <<Turn(TurnId(sessionId, st.counter + 1),
                           IF entry.timestamp # 0 THEN entry.timestamp ELSE now,
                           extractUserMessage(entry), isLatest)>>]
    ELSE st

\* Lines 382-407: a user entry.
OnUser(st, entry, sessionId, isLatest, now) ==
    IF entry.type = "user" /\ ~isToolResultEntry(entry)
    THEN [st EXCEPT
            !.turns = IF st.cur # <<>> /\ st.cur[1].fileChanges # <<>>
                      THEN Append(st.turns, st.cur[1]) ELSE st.turns,
            !.counter = st.counter + 1,
            !.cur = <<Turn(TurnId(sessionId, st.counter + 1),
                           IF entry.timestamp # 0 THEN entry.timestamp ELSE now,
                           extractUserMessage(entry), isLatest)>>]
    ELSE st

\* The assistant entry handled without lines 414-427: content that finds no
\* open turn is dropped.
OnAssistantNeedsOpenTurn(st, entry, sessionId, isLatest, now) ==
    IF entry.type = "assistant" /\ HasContent(entry) /\ entry.form = "array"
       /\ st.cur # <<>>
    THEN LET chs == extractAllFileChanges(entry, st.cur[1].id, isLatest)
             txt == extractAssistantText(entry)
             t == st.cur[1]
             t1 == [t EXCEPT !.fileChanges = t.fileChanges \o chs]
             t2 == IF Truthy(txt)
                   THEN [t1 EXCEPT !.assistantMessage =
                           IF Truthy(t.assistantMessage)
                           THEN t.assistantMessage \o <<"nn">> \o txt
                           ELSE txt]
                   ELSE t1
         IN [st EXCEPT !.cur = <<t2>>]
    ELSE st

\* The assistant entry handled with unshift in place of push at line 431: the
\* changes of an entry are put in front of those the turn already has.
OnAssistantPutsChangesFirst(st, entry, sessionId, isLatest, now) ==
    IF entry.type = "assistant" /\ HasContent(entry) /\ entry.form = "array"
    THEN LET turnId == IF st.cur # <<>> THEN st.cur[1].id
                       ELSE TurnId(sessionId, 0)
             chs == extractAllFileChanges(entry, turnId, isLatest)
             txt == extractAssistantText(entry)
             opened == IF st.cur = <<>> /\ (chs # <<>> \/ Truthy(txt))
                       THEN [st EXCEPT
                               !.counter = st.counter + 1,
                               !.cur = <<Turn(TurnId(sessionId, st.counter + 1),
                                              IF entry.timestamp # 0
                                              THEN entry.timestamp ELSE now,
                                              NoMessage, isLatest)>>]
                       ELSE st
         IN IF opened.cur = <<>> THEN opened
            ELSE LET t == opened.cur[1]
                     t1 == [t EXCEPT !.fileChanges = chs \o t.fileChanges]
                     t2 == IF Truthy(txt)
                           THEN [t1 EXCEPT !.assistantMessage =
                                   IF Truthy(t.assistantMessage)
                                   THEN t.assistantMessage \o <<"nn">> \o txt
                                   ELSE txt]
                           ELSE t1
                 IN [opened EXCEPT !.cur = <<t2>>]
    ELSE st

\* Lines 409-442: an assistant entry with array content.
OnAssistant(st, entry, sessionId, isLatest, now) ==
    IF entry.type = "assistant" /\ HasContent(entry) /\ entry.form = "array"
    THEN LET turnId == IF st.cur # <<>> THEN st.cur[1].id
                       ELSE TurnId(sessionId, 0)
             chs == extractAllFileChanges(entry, turnId, isLatest)
             txt == extractAssistantText(entry)
             opened == IF st.cur = <<>> /\ (chs # <<>> \/ Truthy(txt))
                       THEN [st EXCEPT
                               !.counter = st.counter + 1,
                               !.cur = <<Turn(TurnId(sessionId, st.counter + 1),
                                              IF entry.timestamp # 0
                                              THEN entry.timestamp ELSE now,
                                              NoMessage, isLatest)>>]
                       ELSE st
         IN IF opened.cur = <<>> THEN opened
            ELSE LET t == opened.cur[1]
                     t1 == [t EXCEPT !.fileChanges = t.fileChanges \o chs]
                     t2 == IF Truthy(txt)
                           THEN [t1 EXCEPT !.assistantMessage =
                                   IF Truthy(t.assistantMessage)
                                   THEN t.assistantMessage \o <<"nn">> \o txt
                                   ELSE txt]
                           ELSE t1
                 IN [opened EXCEPT !.cur = <<t2>>]
    ELSE st

\* One iteration of the loop at line 380. JSON.parse alone is inside the try
\* (lines 367-372), so the entry of a `null` line reaches entry.type at line
\* 382, which throws a TypeError nothing catches.
ScanEntry(st, entry, sessionId, isLatest, now) ==
    IF st.threw THEN st
    ELSE IF entry.kind = "null" THEN [st EXCEPT !.threw = TRUE]
    ELSE OnAssistant(OnUser(st, entry, sessionId, isLatest, now),
                     entry, sessionId, isLatest, now)

RECURSIVE Scan(_, _, _, _, _)
Scan(st, entries, sessionId, isLatest, now) ==
    IF entries = <<>> THEN st
    ELSE Scan(ScanEntry(st, Head(entries), sessionId, isLatest, now),
              Tail(entries), sessionId, isLatest, now)

\* Lines 365-373: the lines JSON.parse accepts, `null` among them.
RECURSIVE ParsedEntries(_)
ParsedEntries(lines) ==
    IF lines = <<>> THEN <<>>
    ELSE IF Head(lines).kind = "bad" THEN ParsedEntries(Tail(lines))
    ELSE <<Head(lines)>> \o ParsedEntries(Tail(lines))

\* getSessionWithTurns without lines 445-448: the turn that is open when the
\* log ends is not pushed.
buildTurnsForgetsLastTurn(sessionId, lines, isLatest, now) ==
    LET st == Scan(ScanInit, ParsedEntries(lines), sessionId, isLatest, now)
    IN IF st.threw
       THEN [ok |-> FALSE, sessionId |-> sessionId, isLatest |-> isLatest,
             turns |-> <<>>]
       ELSE [ok |-> TRUE, sessionId |-> sessionId, isLatest |-> isLatest,
             turns |-> st.turns]

\* getSessionWithTurns once the session file is known to exist: the turns,
\* or the exception the scan threw.
buildTurns(sessionId, lines, isLatest, now) ==
    LET st == Scan(ScanInit, ParsedEntries(lines), sessionId, isLatest, now)
        turns == IF st.cur # <<>> /\ st.cur[1].fileChanges # <<>>
                 THEN Append(st.turns, st.cur[1]) ELSE st.turns
    IN IF st.threw
       THEN [ok |-> FALSE, sessionId |-> sessionId, isLatest |-> isLatest,
             turns |-> <<>>]
       ELSE [ok |-> TRUE, sessionId |-> sessionId, isLatest |-> isLatest,
             turns |-> turns]

----------------------------------------------------------------------------
(* parser.ts: the session list *)

DisplayLimit == 100

Substring(s, n) == SubSeq(s, 1, IF Len(s) < n THEN Len(s) ELSE n)

\* Lines 236-250: the first user entry that changes firstUserMessage from
\* its initial 'No message'.
RECURSIVE FirstDisplayText(_)
FirstDisplayText(blocks) ==
    IF blocks = <<>> THEN NoMessage
    ELSE IF Head(blocks).type = "text" /\ Truthy(Head(blocks).text)
         THEN Substring(Head(blocks).text, DisplayLimit)
         ELSE FirstDisplayText(Tail(blocks))

RECURSIVE MetaUserMessage(_)
MetaUserMessage(lines) ==
    IF lines = <<>> THEN NoMessage
    ELSE LET e == Head(lines)
             here == IF e.kind = "entry" /\ e.type = "user" /\ HasContent(e)
                     THEN (IF e.form = "string"
                           THEN Substring(e.text, DisplayLimit)
                           ELSE FirstDisplayText(e.blocks))
                     ELSE NoMessage
         IN IF here # NoMessage THEN here ELSE MetaUserMessage(Tail(lines))

RECURSIVE CountFileTools(_)
CountFileTools(blocks) ==
    IF blocks = <<>> THEN 0
    ELSE (IF Head(blocks).type = "tool_use" /\ Head(blocks).name \in FileTools
          THEN 1 ELSE 0) + CountFileTools(Tail(blocks))

\* Lines 252-260.
RECURSIVE MetaFileCount(_)
MetaFileCount(lines) ==
    IF lines = <<>> THEN 0
    ELSE LET e == Head(lines) IN
         (IF e.kind = "entry" /\ e.type = "assistant" /\ HasContent(e)
             /\ e.form = "array"
          THEN CountFileTools(e.blocks) ELSE 0) + MetaFileCount(Tail(lines))

\* Lines 231-233 and 269: the first timestamp of the log, or the current time.
RECURSIVE MetaTimestamp(_, _)
MetaTimestamp(lines, now) ==
    IF lines = <<>> THEN now
    ELSE IF Head(lines).kind = "entry" /\ Head(lines).timestamp # 0
         THEN Head(lines).timestamp
         ELSE MetaTimestamp(Tail(lines), now)

extractSessionMetadata(sessionId, file, now) ==
    [sessionId |-> sessionId, mtime |-> file.mtime,
     timestamp |-> MetaTimestamp(file.log, now),
     userMessage |-> MetaUserMessage(file.log),
     fileCount |-> MetaFileCount(file.log), isLatest |-> FALSE]

\* sessions.sort((a, b) => b.mtime - a.mtime): Array.prototype.sort is
\* stable, so sessions of equal mtime keep the order readdir gave them.
RECURSIVE InsertByMtime(_, _)
InsertByMtime(sorted, m) ==
    IF sorted = <<>> THEN <<m>>
    ELSE IF Head(sorted).mtime >= m.mtime
         THEN <<Head(sorted)>> \o InsertByMtime(Tail(sorted), m)
         ELSE <<m>> \o sorted

\* The sort with its comparison reversed (a.mtime - b.mtime): oldest first.
RECURSIVE InsertOldestFirst(_, _)
InsertOldestFirst(sorted, m) ==
    IF sorted = <<>> THEN <<m>>
    ELSE IF Head(sorted).mtime <= m.mtime
         THEN <<Head(sorted)>> \o InsertOldestFirst(Tail(sorted), m)
         ELSE <<m>> \o sorted

RECURSIVE SortByMtimeAscending(_)
SortByMtimeAscending(ms) ==
    IF ms = <<>> THEN <<>>
    ELSE InsertOldestFirst(SortByMtimeAscending(SubSeq(ms, 1, Len(ms) - 1)),
                           ms[Len(ms)])

RECURSIVE SortByMtime(_)
SortByMtime(ms) ==
    IF ms = <<>> THEN <<>>
    ELSE InsertByMtime(SortByMtime(SubSeq(ms, 1, Len(ms) - 1)), ms[Len(ms)])

\* The order in which readdir lists the session files.
ReaddirOrder == <<"s1", "s2">>

Sessions == {ReaddirOrder[i] : i \in 1..Len(ReaddirOrder)}

RECURSIVE MetadataOf(_, _, _)
MetadataOf(order, fs, now) ==
    IF order = <<>> THEN <<>>
    ELSE (IF fs[Head(order)].exists
          THEN <<extractSessionMetadata(Head(order), fs[Head(order)], now)>>
          ELSE <<>>) \o MetadataOf(Tail(order), fs, now)

\* Lines 194-196.
MarkLatest(sessions) ==
    IF sessions = <<>> THEN sessions
    ELSE [sessions EXCEPT ![1].isLatest = TRUE]

\* getAllSessionMetadata: stat of a missing directory throws, which the
\* catch at line 199 turns into the empty list.
getAllSessionMetadata(dir, fs, now) ==
    IF ~dir THEN <<>>
    ELSE MarkLatest(SortByMtime(MetadataOf(ReaddirOrder, fs, now)))

\* The test of lines 296-297 with sessions.some(...) in place of
\* sessions[0]: any listed session counts as the latest.
IsListedSession(dir, fs, sessionId) ==
    LET sessions == getAllSessionMetadata(dir, fs, 0) IN
    \E i \in DOMAIN sessions : sessions[i].sessionId = sessionId

\* Lines 296-297 and 356-357.
IsLatestSession(dir, fs, sessionId) ==
    LET sessions == getAllSessionMetadata(dir, fs, 0) IN
    sessions # <<>> /\ sessions[1].sessionId = sessionId

\* getFirstUserMessage, lines 308-339.
RECURSIVE getFirstUserMessage(_)
getFirstUserMessage(lines) ==
    IF lines = <<>> THEN NoMessage
    ELSE LET e == Head(lines) IN
         IF e.kind = "entry" /\ e.type = "user" /\ HasContent(e)
            /\ e.form = "string" /\ Truthy(Trim(e.text))
         THEN e.text
         ELSE IF e.kind = "entry" /\ e.type = "user" /\ HasContent(e)
                 /\ e.form = "array" /\ HasTextBlock(e.blocks)
         THEN FirstText(e.blocks)
         ELSE getFirstUserMessage(Tail(lines))

\* getSessionChanges once the session file is known to exist.
getSessionChanges(dir, fs, sessionId) ==
    LET found == parseLogFile(fs[sessionId].log)
        msg == getFirstUserMessage(fs[sessionId].log)
        isLatest == IsLatestSession(dir, fs, sessionId)
    IN [i \in 1..Len(found) |->
          [found[i] EXCEPT !.sessionId = sessionId, !.userMessage = msg,
                           !.isLatestSession =
                               IF isLatest THEN "true" ELSE "false"]]

RECURSIVE StatAll(_, _)
StatAll(order, fs) ==
    IF order = <<>> THEN <<>>
    ELSE (IF fs[Head(order)].exists
          THEN <<[file |-> Head(order), mtime |-> fs[Head(order)].mtime]>>
          ELSE <<>>) \o StatAll(Tail(order), fs)

\* getLatestLogFile: the .jsonl files of the project directory sorted by
\* mtime, newest first; the first one, or nothing (null).
getLatestLogFile(dir, fs) ==
    IF ~dir THEN <<>>
    ELSE LET allFiles == SortByMtime(StatAll(ReaddirOrder, fs)) IN
         IF allFiles = <<>> THEN <<>> ELSE <<allFiles[1].file>>

----------------------------------------------------------------------------
(* The working tree *)

Paths == {"f", "g"}

Absent == [exists |-> FALSE, content |-> Empty]

File(content) == [exists |-> TRUE, content |-> content]

----------------------------------------------------------------------------
(* ChangeTracker (change-tracker.ts), from spec.md 4.5 *)

IsPrefix(p, s) == Len(p) <= Len(s) /\ SubSeq(s, 1, Len(p)) = p

\* The first position at which old occurs in text, 0 when it does not.
RECURSIVE IndexFrom(_, _, _)
IndexFrom(text, old, i) ==
    IF i + Len(old) - 1 > Len(text) THEN 0
    ELSE IF SubSeq(text, i, i + Len(old) - 1) = old THEN i
    ELSE IndexFrom(text, old, i + 1)

IndexOf(text, old) == IndexFrom(text, old, 1)

ReplaceFirst(text, old, new) ==
    LET i == IndexOf(text, old) IN
    IF i = 0 THEN text
    ELSE SubSeq(text, 1, i - 1) \o new \o SubSeq(text, i + Len(old), Len(text))

RECURSIVE ReplaceAll(_, _, _)
ReplaceAll(text, old, new) ==
    LET i == IndexOf(text, old) IN
    IF i = 0 \/ old = <<>> THEN ReplaceFirst(text, old, new)
    ELSE SubSeq(text, 1, i - 1) \o new
         \o ReplaceAll(SubSeq(text, i + Len(old), Len(text)), old, new)

\* An edit: each operation applied to the working text in declared order.
\* located is FALSE once an operation's old value is not in the working text.
RECURSIVE ApplyOps(_, _)
ApplyOps(text, ops) ==
    IF ops = <<>> THEN [text |-> text, located |-> TRUE]
    ELSE LET op == Head(ops)
             found == IndexOf(text, op.oldString) # 0
             next == IF op.replaceAll
                     THEN ReplaceAll(text, op.oldString, op.newString)
                     ELSE ReplaceFirst(text, op.oldString, op.newString)
             rest == ApplyOps(next, Tail(ops))
         IN [text |-> rest.text, located |-> found /\ rest.located]

alreadyReverted(ledger, id) == id \in ledger

\* canRevert = isLatestSession AND NOT alreadyReverted(change.id); a change
\* whose anchor text was not located is unrevertable.
CanRevert(change, located, ledger) ==
    /\ change.isLatestSession = "true"
    /\ ~alreadyReverted(ledger, change.id)
    /\ located

\* One change of a batch. states is the simulated content of the paths the
\* batch has touched so far (known = FALSE for the others).
ParseChange(change, states, d, ledger) ==
    LET p == change.filePath
        chained == p \in Paths /\ states[p].known
        onDisk == IF p \in Paths THEN d[p] ELSE Absent
        existed == chained \/ onDisk.exists
        before == IF chained THEN states[p].content
                  ELSE IF onDisk.exists THEN onDisk.content ELSE Empty
        applied == IF change.type = "write"
                   THEN [text |-> change.newContent, located |-> TRUE]
                   ELSE ApplyOps(before, change.changes)
    IN [id |-> change.id, timestamp |-> change.timestamp,
        type |-> IF existed THEN change.type ELSE "create",
        filePath |-> p, oldContent |-> before, newContent |-> applied.text,
        canRevert |-> CanRevert(change, applied.located, ledger),
        sessionId |-> change.sessionId,
        isLatestSession |-> change.isLatestSession,
        userMessage |-> change.userMessage]

RECURSIVE ProcessFrom(_, _, _, _)
ProcessFrom(chs, states, d, ledger) ==
    IF chs = <<>> THEN <<>>
    ELSE LET pc == ParseChange(Head(chs), states, d, ledger)
             states2 == IF pc.filePath \in Paths
                        THEN [states EXCEPT ![pc.filePath] =
                                [known |-> TRUE, content |-> pc.newContent]]
                        ELSE states
         IN <<pc>> \o ProcessFrom(Tail(chs), states2, d, ledger)

processChanges(chs, d, ledger) ==
    ProcessFrom(chs, [p \in Paths |-> [known |-> FALSE, content |-> Empty]],
                d, ledger)

\* Step 1 deciding on the flag of the record alone.
RejectedByFlag(change, ledger) == ~change.canRevert

\* revertChange step 1: the ledger is the source of truth for canRevert, so
\* a change the ledger holds is rejected whatever its record says.
RevertRejected(change, ledger) ==
    ~change.canRevert \/ alreadyReverted(ledger, change.id)

\* Steps 2 and 3 without the delete: the snapshot is written even when it
\* is empty.
RevertWritesSnapshot(d, change) ==
    IF change.filePath \notin Paths THEN d
    ELSE [d EXCEPT ![change.filePath] = File(change.oldContent)]

\* revertChange steps 2 and 3: delete a creation (an absent file is
\* success), otherwise overwrite the file with the 'before' snapshot.
RevertOnDisk(d, change) ==
    IF change.filePath \notin Paths THEN d
    ELSE IF change.oldContent = Empty
         THEN [d EXCEPT ![change.filePath] = Absent]
         ELSE [d EXCEPT ![change.filePath] = File(change.oldContent)]

\* revertChange step 4: upsert the ledger entry.
LedgerUpsert(ledger, id) == ledger \cup {id}

----------------------------------------------------------------------------
(* The session logs of the server specification *)

Foo == <<"foo">>

Bar == <<"bar">>

FooFoo == <<"foo", "_", "foo">>

BarFoo == <<"bar", "_", "foo">>

\* A session that creates f and overwrites it in the same turn; the trailing
\* line is truncated.
LogS1 ==
    << StringEntry("user", 1, S("a")),
       ArrayEntry("assistant", 2, <<ToolUse("Write", "f", S("x"), <<>>)>>),
       ArrayEntry("user", 2, <<ToolResult>>),
       ArrayEntry("assistant", 3, <<ToolUse("Write", "f", S("y"), <<>>)>>),
       BadLine >>

\* A session whose only assistant entry writes g and then edits it.
LogS2 ==
    << StringEntry("user", 4, S("b")),
       ArrayEntry("assistant", 5,
                  <<TextBlock(S("ok")),
                    ToolUse("Write", "g", FooFoo, <<>>),
                    ToolUse("Edit", "g", Empty, <<EditOp(Foo, Bar, FALSE)>>)>>),
       ArrayEntry("user", 5, <<ToolResult>>) >>

LogOf(sessionId) == IF sessionId = "s1" THEN LogS1 ELSE LogS2

NoFile == [exists |-> FALSE, mtime |-> 0, log |-> <<>>]

SessionFile(sessionId, mtime) ==
    [exists |-> TRUE, mtime |-> mtime, log |-> LogOf(sessionId)]

----------------------------------------------------------------------------
(* RevertServer *)

Clients == {"c1", "c2"}

\* Load requests served while one client is connected, and while two are.
MaxLoads == 2

MaxRaceLoads == 1

Now == 9

NoId == <<"", -1, 0, "", 0>>

\* A change id no response ever carried.
BogusId == <<"", -1, 0, "bogus", 0>>

NoChange ==
    [id |-> NoId, timestamp |-> 0, type |-> "", filePath |-> "",
     oldContent |-> Empty, newContent |-> Empty, canRevert |-> FALSE,
     sessionId |-> "", isLatestSession |-> "undef", userMessage |-> Empty]

Idle == [pc |-> "idle", changeId |-> NoId, change |-> NoChange, error |-> ""]

Message(type, to, sessionId, chs, turns, sessions, changeId, error) ==
    [type |-> type, to |-> to, sessionId |-> sessionId, changes |-> chs,
     turns |-> turns, sessions |-> sessions, changeId |-> changeId,
     error |-> error]

NoMessageSent == Message("none", "", "", <<>>, <<>>, <<>>, NoId, "")

ErrorMessage(to, error) ==
    Message("error", to, "", <<>>, <<>>, <<>>, NoId, error)

RECURSIVE IdsOf(_)
IdsOf(chs) ==
    IF chs = <<>> THEN {} ELSE {Head(chs).id} \cup IdsOf(Tail(chs))

\* find with a callback that forgets the comparison (c => c.id): it is truthy
\* for the first record whatever its id.
FindFirstChange(chs, changeId) ==
    IF chs = <<>> THEN <<>> ELSE <<Head(chs)>>

\* this.changes.find(c => c.id === changeId): the first match, or nothing.
RECURSIVE FindChange(_, _)
FindChange(chs, changeId) ==
    IF chs = <<>> THEN <<>>
    ELSE IF Head(chs).id = changeId THEN <<Head(chs)>>
    ELSE FindChange(Tail(chs), changeId)

\* processedChanges.sort((a, b) => time(b) - time(a)): stable, newest first.
RECURSIVE InsertByTimestamp(_, _)
InsertByTimestamp(sorted, c) ==
    IF sorted = <<>> THEN <<c>>
    ELSE IF Head(sorted).timestamp >= c.timestamp
         THEN <<Head(sorted)>> \o InsertByTimestamp(Tail(sorted), c)
         ELSE <<c>> \o sorted

\* The list as processChanges returned it, without the sort of lines 228-230.
KeepLogOrder(chs) == chs

RECURSIVE SortNewestFirst(_)
SortNewestFirst(chs) ==
    IF chs = <<>> THEN <<>>
    ELSE InsertByTimestamp(SortNewestFirst(SubSeq(chs, 1, Len(chs) - 1)),
                           chs[Len(chs)])

RECURSIVE FileChangesOf(_)
FileChangesOf(turns) ==
    IF turns = <<>> THEN <<>>
    ELSE Head(turns).fileChanges \o FileChangesOf(Tail(turns))

\* The turns, each with its share of the processed changes.
RECURSIVE WithParsed(_, _)
WithParsed(turns, parsed) ==
    IF turns = <<>> THEN <<>>
    ELSE LET n == Len(Head(turns).fileChanges) IN
         <<[id |-> Head(turns).id,
            userMessage |-> Head(turns).userMessage,
            assistantMessage |-> Head(turns).assistantMessage,
            fileChanges |-> Head(turns).fileChanges,
            parsedChanges |-> SubSeq(parsed, 1, n),
            isLatestSession |-> Head(turns).isLatestSession]>>
         \o WithParsed(Tail(turns), SubSeq(parsed, n + 1, Len(parsed)))

\* Lines 184-192 with one call of processChanges for the changes of all
\* turns: the turns of a session form a single batch.
ProcessTurnsAsOneBatch(turns, d, ledger) ==
    WithParsed(turns, processChanges(FileChangesOf(turns), d, ledger))

\* Lines 184-192: each turn's changes are processed as one batch; the
\* result is attached to the turn and appended to this.changes.
RECURSIVE ProcessTurns(_, _, _)
ProcessTurns(turns, d, ledger) ==
    IF turns = <<>> THEN <<>>
    ELSE <<[id |-> Head(turns).id,
            userMessage |-> Head(turns).userMessage,
            assistantMessage |-> Head(turns).assistantMessage,
            fileChanges |-> Head(turns).fileChanges,
            parsedChanges |-> processChanges(Head(turns).fileChanges, d, ledger),
            isLatestSession |-> Head(turns).isLatestSession]>>
         \o ProcessTurns(Tail(turns), d, ledger)

RECURSIVE AllParsed(_)
AllParsed(turns) ==
    IF turns = <<>> THEN <<>>
    ELSE Head(turns).parsedChanges \o AllParsed(Tail(turns))

\* The working tree: f does not exist, g reads "bar foo".
InitialDisks ==
    { [p \in Paths |-> IF p = "g" THEN File(BarFoo) ELSE Absent] }

\* The project directory is absent, or holds s1 alone, or s1 and s2 with
\* equal mtimes.
InitialFiles ==
    { [sid \in Sessions |-> NoFile],
      [sid \in Sessions |-> IF sid = "s1" THEN SessionFile(sid, 1) ELSE NoFile],
      [sid \in Sessions |-> SessionFile(sid, 1)] }

ServerInit ==
    /\ files \in InitialFiles
    /\ dirExists = (\E sid \in Sessions : files[sid].exists)
    /\ disk \in InitialDisks
    /\ stateFile = {}
    /\ revertedChanges = stateFile
    /\ changes = <<>>
    /\ clients = {"c1"}
    /\ req = [c \in Clients |-> Idle]
    /\ sent = NoMessageSent
    /\ loads = 0
    /\ shown = {}

LoadLimit == IF Cardinality(clients) = 1 THEN MaxLoads ELSE MaxRaceLoads

\* handleGetSessions over a getAllSessionMetadata without the catch of lines
\* 199-202: the failed stat of a missing directory reaches the handler's catch.
HandleGetSessionsStatThrows(c) ==
    /\ sent' = IF ~dirExists THEN ErrorMessage(c, "ENOENT")
               ELSE Message("sessions", c, "", <<>>, <<>>,
                            getAllSessionMetadata(dirExists, files, Now),
                            NoId, "")
    /\ UNCHANGED parserVars
    /\ UNCHANGED <<dirExists, files, disk, revertedChanges, stateFile,
                   changes, clients, req, loads, shown>>

\* handleGetSessions
HandleGetSessions(c) ==
    /\ sent' = Message("sessions", c, "", <<>>, <<>>,
                       getAllSessionMetadata(dirExists, files, Now), NoId, "")
    /\ UNCHANGED parserVars
    /\ UNCHANGED <<dirExists, files, disk, revertedChanges, stateFile,
                   changes, clients, req, loads, shown>>

\* handleGetSessionTurns
HandleGetSessionTurns(c, sessionId) ==
    /\ loads < LoadLimit
    /\ loads' = loads + 1
    /\ IF ~(dirExists /\ files[sessionId].exists)
       THEN /\ sent' = ErrorMessage(c, "Session file not found")
            /\ UNCHANGED changes
       ELSE LET session == buildTurns(sessionId, files[sessionId].log,
                               IsLatestSession(dirExists, files, sessionId),
                               Now)
                turns == ProcessTurns(session.turns, disk, revertedChanges)
            IN IF ~session.ok
               THEN /\ sent' = ErrorMessage(c, "TypeError")
                    /\ UNCHANGED changes
               ELSE /\ changes' = changes \o AllParsed(turns)
                    /\ sent' = Message("sessionTurns", c, sessionId,
                                       AllParsed(turns), turns, <<>>, NoId, "")
    /\ UNCHANGED parserVars
    /\ UNCHANGED <<dirExists, files, disk, revertedChanges, stateFile,
                   clients, req>>
    /\ shown' = shown \cup IdsOf(sent'.changes)

\* handleGetSessionChanges over a getSessionChanges without the access test
\* of lines 284-288: a session without a file has no changes.
HandleGetSessionChangesOfNoFile(c, sessionId) ==
    /\ loads < LoadLimit
    /\ loads' = loads + 1
    /\ LET processed == IF ~(dirExists /\ files[sessionId].exists) THEN <<>>
                        ELSE processChanges(
                                 getSessionChanges(dirExists, files, sessionId),
                                 disk, revertedChanges)
       IN /\ changes' = changes \o processed
          /\ sent' = Message("sessionChanges", c, sessionId,
                             SortNewestFirst(processed), <<>>, <<>>, NoId, "")
    /\ UNCHANGED parserVars
    /\ UNCHANGED <<dirExists, files, disk, revertedChanges, stateFile,
                   clients, req>>
    /\ shown' = shown \cup IdsOf(sent'.changes)

\* handleGetSessionChanges
HandleGetSessionChanges(c, sessionId) ==
    /\ loads < LoadLimit
    /\ loads' = loads + 1
    /\ IF ~(dirExists /\ files[sessionId].exists)
       THEN /\ sent' = ErrorMessage(c, "Session file not found")
            /\ UNCHANGED changes
       ELSE LET processed == processChanges(
                    getSessionChanges(dirExists, files, sessionId),
                    disk, revertedChanges)
            IN /\ changes' = changes \o processed
               /\ sent' = Message("sessionChanges", c, sessionId,
                                  SortNewestFirst(processed), <<>>, <<>>,
                                  NoId, "")
    /\ UNCHANGED parserVars
    /\ UNCHANGED <<dirExists, files, disk, revertedChanges, stateFile,
                   clients, req>>
    /\ shown' = shown \cup IdsOf(sent'.changes)

\* handleGetChanges
HandleGetChanges(c) ==
    /\ loads < LoadLimit
    /\ loads' = loads + 1
    /\ LET latest == getLatestLogFile(dirExists, files) IN
       IF latest = <<>>
       THEN /\ sent' = ErrorMessage(c, "No Claude log files found")
            /\ UNCHANGED changes
       ELSE /\ changes' = SortNewestFirst(
                   processChanges(parseLogFile(files[latest[1]].log),
                                  disk, revertedChanges))
            /\ sent' = Message("changes", c, "", changes', <<>>, <<>>, NoId, "")
    /\ UNCHANGED parserVars
    /\ UNCHANGED <<dirExists, files, disk, revertedChanges, stateFile,
                   clients, req>>
    /\ shown' = shown \cup IdsOf(sent'.changes)

\* handleRevert up to the call of tracker.revertChange (lines 277-286).
HandleRevert(c, changeId) ==
    /\ req[c].pc = "idle"
    /\ LET hit == FindChange(changes, changeId) IN
       IF hit = <<>>
       THEN /\ sent' = Message("revertError", c, "", <<>>, <<>>, <<>>,
                               NoId, "Change not found")
            /\ UNCHANGED req
       ELSE /\ req' = [req EXCEPT ![c] =
                         [pc |-> "called", changeId |-> changeId,
                          change |-> hit[1], error |-> ""]]
            /\ sent' = NoMessageSent
    /\ UNCHANGED parserVars
    /\ UNCHANGED <<dirExists, files, disk, revertedChanges, stateFile,
                   changes, clients, loads, shown>>

\* A revert is executing for the change id or the target path of `change`
\* on behalf of a client other than c (spec.md 5: one revert per change id
\* and per target path at a time).
Excluded(c, change) ==
    \E d \in clients \ {c} :
        /\ req[d].pc \in {"writing", "recording"}
        /\ \/ req[d].change.id = change.id
           \/ req[d].change.filePath = change.filePath

\* ChangeTracker.revertChange, step 1.
RevertChangeCheck(c) ==
    /\ req[c].pc = "called"
    /\ ~Excluded(c, req[c].change)
    /\ req' = [req EXCEPT ![c] =
                 IF RevertRejected(req[c].change, revertedChanges)
                 THEN [@ EXCEPT !.pc = "threw", !.error = "Cannot revert"]
                 ELSE [@ EXCEPT !.pc = "writing"]]
    /\ sent' = NoMessageSent
    /\ UNCHANGED parserVars
    /\ UNCHANGED <<dirExists, files, disk, revertedChanges, stateFile,
                   changes, clients, loads, shown>>

\* ChangeTracker.revertChange, steps 2 and 3: the delete, or the write and
\* rename, succeeds or fails as a whole.
RevertChangeWrite(c) ==
    /\ req[c].pc = "writing"
    /\ \/ /\ disk' = RevertOnDisk(disk, req[c].change)
          /\ req' = [req EXCEPT ![c].pc = "recording"]
       \/ /\ req' = [req EXCEPT ![c].pc = "threw", ![c].error = "I/O failure"]
          /\ UNCHANGED disk
    /\ sent' = NoMessageSent
    /\ UNCHANGED parserVars
    /\ UNCHANGED <<dirExists, files, revertedChanges, stateFile, changes,
                   clients, loads, shown>>

\* ChangeTracker.revertChange, step 4: the upsert and the flush of the
\* ledger, before the call returns.
RevertChangeRecord(c) ==
    /\ req[c].pc = "recording"
    /\ revertedChanges' = LedgerUpsert(revertedChanges, req[c].change.id)
    /\ stateFile' = revertedChanges'
    /\ req' = [req EXCEPT ![c].pc = "returned"]
    /\ sent' = NoMessageSent
    /\ UNCHANGED parserVars
    /\ UNCHANGED <<dirExists, files, disk, changes, clients, loads,
                   shown>>

\* handleRevert without its catch: whatever the call did, the client is
\* told the revert succeeded.
HandleRevertReplySuccessOnly(c) ==
    /\ req[c].pc \in {"returned", "threw"}
    /\ sent' = Message("revertSuccess", c, "", <<>>, <<>>, <<>>,
                       req[c].changeId, "")
    /\ req' = [req EXCEPT ![c] = Idle]
    /\ UNCHANGED parserVars
    /\ UNCHANGED <<dirExists, files, disk, revertedChanges, stateFile,
                   changes, clients, loads, shown>>

\* handleRevert that, after a successful call, also strikes the last line
\* of the owning session's log.
HandleRevertReplyEditsLog(c) ==
    /\ req[c].pc \in {"returned", "threw"}
    /\ sent' = IF req[c].pc = "returned"
               THEN Message("revertSuccess", c, "", <<>>, <<>>, <<>>,
                            req[c].changeId, "")
               ELSE Message("revertError", c, "", <<>>, <<>>, <<>>,
                            NoId, req[c].error)
    /\ files' = IF req[c].pc = "returned"
                   /\ req[c].change.id[1] \in Sessions
                   /\ files[req[c].change.id[1]].log # <<>>
                THEN [files EXCEPT ![req[c].change.id[1]].log =
                        SubSeq(@, 1, Len(@) - 1)]
                ELSE files
    /\ req' = [req EXCEPT ![c] = Idle]
    /\ UNCHANGED parserVars
    /\ UNCHANGED <<dirExists, disk, revertedChanges, stateFile,
                   changes, clients, loads, shown>>

\* handleRevert after the call (lines 287-299).
HandleRevertReply(c) ==
    /\ req[c].pc \in {"returned", "threw"}
    /\ sent' = IF req[c].pc = "returned"
               THEN Message("revertSuccess", c, "", <<>>, <<>>, <<>>,
                            req[c].changeId, "")
               ELSE Message("revertError", c, "", <<>>, <<>>, <<>>,
                            NoId, req[c].error)
    /\ req' = [req EXCEPT ![c] = Idle]
    /\ UNCHANGED parserVars
    /\ UNCHANGED <<dirExists, files, disk, revertedChanges, stateFile,
                   changes, clients, loads, shown>>

\* A start() that does not call tracker.init(): the ledger starts empty.
RestartWithoutInit ==
    /\ changes' = <<>>
    /\ revertedChanges' = {}
    /\ req' = [c \in Clients |-> Idle]
    /\ sent' = NoMessageSent
    /\ UNCHANGED parserVars
    /\ shown' = {}
    /\ UNCHANGED <<dirExists, files, disk, stateFile, clients, loads>>

\* The process ends and start() runs again: tracker.init() loads the ledger.
Restart ==
    /\ changes' = <<>>
    /\ revertedChanges' = stateFile
    /\ req' = [c \in Clients |-> Idle]
    /\ sent' = NoMessageSent
    /\ UNCHANGED parserVars
    /\ shown' = {}
    /\ UNCHANGED <<dirExists, files, disk, stateFile, clients, loads>>

\* The agent resumes one of several sessions, which becomes the most
\* recently modified. Modification times are ranks: 1 for a file as it was
\* when the server started, 2 for the file written since.
Touch(sessionId) ==
    /\ files[sessionId].exists
    /\ \E other \in Sessions \ {sessionId} : files[other].exists
    /\ \A other \in Sessions : files[other].mtime <= 1
    /\ files' = [sid \in Sessions |->
                   IF sid = sessionId THEN [files[sid] EXCEPT !.mtime = 2]
                   ELSE IF files[sid].exists
                        THEN [files[sid] EXCEPT !.mtime = 1]
                        ELSE files[sid]]
    /\ sent' = NoMessageSent
    /\ UNCHANGED parserVars
    /\ UNCHANGED <<dirExists, disk, revertedChanges, stateFile, changes,
                   clients, req, loads, shown>>

\* The ids a client may ask to revert: those the server holds, those the
\* clients have been sent, and one the server never delivered.
RevertableIds == IdsOf(changes) \cup shown \cup {BogusId}

Next ==
    \/ \E c \in clients : HandleGetSessions(c)
    \/ \E c \in clients, sid \in Sessions : HandleGetSessionTurns(c, sid)
    \/ \E c \in clients, sid \in Sessions : HandleGetSessionChanges(c, sid)
    \/ \E c \in clients : HandleGetChanges(c)
    \/ \E c \in clients, id \in RevertableIds : HandleRevert(c, id)
    \/ \E c \in clients : RevertChangeCheck(c)
    \/ \E c \in clients : RevertChangeWrite(c)
    \/ \E c \in clients : RevertChangeRecord(c)
    \/ \E c \in clients : HandleRevertReply(c)
    \/ Restart
    \/ \E sid \in Sessions : Touch(sid)

NoTurns == [ok |-> TRUE, sessionId |-> "", isLatest |-> FALSE, turns |-> <<>>]

\* Nothing has been asked of the parser yet.
ParserOutIdle ==
    [flatDone |-> FALSE, flat |-> <<>>, turnsDone |-> FALSE, turns |-> NoTurns,
     metaDone |-> FALSE, fileCount |-> 0]

\* The loop of getSessionWithTurns before its first iteration: the number of
\* entries read, the state of lines 376-378, and whether the function returned.
ScanIdle == [pos |-> 0, isLatest |-> FALSE, st |-> ScanInit, returned |-> FALSE]

ParserIdle ==
    /\ plog = <<>>
    /\ pout = ParserOutIdle
    /\ pscan = ScanIdle

Init == ServerInit /\ ParserIdle

Spec == Init /\ [][Next]_vars

\* Two clients on one server: loads of either session and reverts, the
\* steps of which interleave.
InitRace ==
    /\ files = [sid \in Sessions |-> SessionFile(sid, 1)]
    /\ dirExists = TRUE
    /\ disk \in InitialDisks
    /\ stateFile = {}
    /\ revertedChanges = stateFile
    /\ changes = <<>>
    /\ clients = Clients
    /\ req = [c \in Clients |-> Idle]
    /\ sent = NoMessageSent
    /\ loads = 0
    /\ shown = {}
    /\ ParserIdle

NextRace ==
    \/ \E c \in clients, sid \in Sessions : HandleGetSessionTurns(c, sid)
    \/ \E c \in clients, sid \in Sessions : HandleGetSessionChanges(c, sid)
    \/ \E c \in clients, id \in RevertableIds : HandleRevert(c, id)
    \/ \E c \in clients : RevertChangeCheck(c)
    \/ \E c \in clients : RevertChangeWrite(c)
    \/ \E c \in clients : RevertChangeRecord(c)
    \/ \E c \in clients : HandleRevertReply(c)

SpecRace == InitRace /\ [][NextRace]_vars

\* One session whose log is any sequence of these lines: a human message and
\* assistant entries that change f and g.
BatchLines ==
    { StringEntry("user", 1, S("a")),
      ArrayEntry("assistant", 2, <<ToolUse("Write", "f", S("x"), <<>>)>>),
      ArrayEntry("assistant", 2,
                 <<ToolUse("Write", "g", S("y"), <<>>),
                   ToolUse("MultiEdit", "f", Empty,
                           <<EditOp(Foo, Bar, TRUE),
                             EditOp(Bar, Foo, FALSE)>>)>>),
      ArrayEntry("assistant", 3,
                 <<TextBlock(S("ok")),
                   ToolUse("Read", "f", Empty, <<>>),
                   ToolUse("Edit", "g", Empty, <<EditOp(Foo, Bar, FALSE)>>),
                   ToolUse("Write", "", S("y"), <<>>)>>) }

BatchLogs == UNION {[1..n -> BatchLines] : n \in 0..MaxLines}

InitLoad ==
    /\ files \in {[sid \in Sessions |->
                      IF sid = "s1"
                      THEN [exists |-> TRUE, mtime |-> 1, log |-> log]
                      ELSE NoFile] : log \in BatchLogs}
    /\ dirExists = TRUE
    /\ disk \in InitialDisks
    /\ stateFile = {}
    /\ revertedChanges = stateFile
    /\ changes = <<>>
    /\ clients = {"c1"}
    /\ req = [c \in Clients |-> Idle]
    /\ sent = NoMessageSent
    /\ loads = 0
    /\ shown = {}
    /\ ParserIdle

NextLoad ==
    \/ \E c \in clients : HandleGetSessionTurns(c, "s1")
    \/ \E c \in clients : HandleGetSessionChanges(c, "s1")
    \/ \E c \in clients : HandleGetChanges(c)

SpecLoad == InitLoad /\ [][NextLoad]_vars

----------------------------------------------------------------------------
(* The parser on every log of at most MaxLines lines *)

SampleLines ==
    { BadLine,
      NullLine,
      StringEntry("user", 1, S("a")),
      ArrayEntry("user", 2, <<ToolResult>>),
      ArrayEntry("user", 4, <<ToolResult, TextBlock(S("b"))>>),
      ArrayEntry("user", 5, <<TextBlock(S("_")), ToolResult>>),
      ArrayEntry("assistant", 2, <<ToolUse("Write", "f", S("x"), <<>>)>>),
      ArrayEntry("assistant", 3,
                 <<TextBlock(S("ok")),
                   ToolUse("Read", "f", Empty, <<>>),
                   ToolUse("Edit", "g", Empty, <<EditOp(Foo, Bar, FALSE)>>),
                   ToolUse("Write", "", S("y"), <<>>)>>),
      ArrayEntry("assistant", 2,
                 <<ToolUse("Write", "", S("y"), <<>>),
                   ToolUse("Write", "g", S("y"), <<>>)>>),
      ArrayEntry("assistant", 2,
                 <<ToolUse("Write", "g", S("y"), <<>>),
                   ToolUse("MultiEdit", "f", Empty,
                           <<EditOp(Foo, Bar, TRUE),
                             EditOp(Bar, Foo, FALSE)>>)>>),
      StringEntry("assistant", 3, S("hi")),
      NoContentEntry("summary", 0) }

SampleLogs == UNION {[1..n -> SampleLines] : n \in 0..MaxLines}

\* The server does nothing while the parser is exercised.
ServerQuiet ==
    /\ dirExists = FALSE
    /\ files = [sid \in Sessions |-> NoFile]
    /\ disk = [p \in Paths |-> Absent]
    /\ stateFile = {}
    /\ revertedChanges = {}
    /\ changes = <<>>
    /\ clients = {"c1"}
    /\ req = [c \in Clients |-> Idle]
    /\ sent = NoMessageSent
    /\ loads = 0
    /\ shown = {}

ParserInit ==
    /\ plog \in SampleLogs
    /\ pout = ParserOutIdle
    /\ pscan = ScanIdle

\* parseLogFile on the log.
RunParseLogFile ==
    /\ ~pout.flatDone
    /\ pout' = [pout EXCEPT !.flatDone = TRUE, !.flat = parseLogFile(plog)]
    /\ UNCHANGED <<plog, pscan>>
    /\ UNCHANGED serverVars

\* getSessionWithTurns on the log, as session s1, latest or not.
RunGetSessionWithTurns ==
    /\ ~pout.turnsDone
    /\ \E isLatest \in BOOLEAN :
          pout' = [pout EXCEPT !.turnsDone = TRUE,
                               !.turns = buildTurns("s1", plog, isLatest, Now)]
    /\ UNCHANGED <<plog, pscan>>
    /\ UNCHANGED serverVars

\* extractSessionMetadata on the log: the fileCount of the session's entry in
\* the session list.
RunExtractSessionMetadata ==
    /\ ~pout.metaDone
    /\ pout' = [pout EXCEPT
                  !.metaDone = TRUE,
                  !.fileCount =
                      extractSessionMetadata(
                          "s1", [exists |-> TRUE, mtime |-> 1, log |-> plog],
                          Now).fileCount]
    /\ UNCHANGED <<plog, pscan>>
    /\ UNCHANGED serverVars

ParserNext ==
    \/ RunParseLogFile
    \/ RunGetSessionWithTurns
    \/ RunExtractSessionMetadata

InitParser == ServerQuiet /\ ParserInit

SpecParser == InitParser /\ [][ParserNext]_vars

----------------------------------------------------------------------------
(* The loop of getSessionWithTurns, one entry at a time *)

Entries == ParsedEntries(plog)

ScanInitial ==
    /\ plog \in SampleLogs
    /\ pout = ParserOutIdle
    /\ \E isLatest \in BOOLEAN : pscan = [ScanIdle EXCEPT !.isLatest = isLatest]

\* The entry the next iteration of the loop at line 380 reads.
NextEntry == Entries[pscan.pos + 1]

Scanning ==
    /\ ~pscan.returned
    /\ ~pscan.st.threw
    /\ pscan.pos < Len(Entries)

\* One iteration of the loop.
Iterate ==
    /\ pscan' = [pscan EXCEPT
                   !.pos = pscan.pos + 1,
                   !.st = ScanEntry(pscan.st, NextEntry, "s1", pscan.isLatest,
                                    Now)]
    /\ UNCHANGED <<plog, pout>>
    /\ UNCHANGED serverVars

IsEntry(e) == e.kind = "entry"

Genuine(e) == IsEntry(e) /\ e.type = "user" /\ ~isToolResultEntry(e)

Echo(e) == IsEntry(e) /\ e.type = "user" /\ isToolResultEntry(e)

\* Lines 382-407 with a genuine human message.
ScanHumanMessage == Scanning /\ Genuine(NextEntry) /\ Iterate

\* Lines 382-407 with a tool-result echo.
ScanToolResult == Scanning /\ Echo(NextEntry) /\ Iterate

\* Lines 409-442.
ScanAssistant ==
    Scanning /\ IsEntry(NextEntry) /\ NextEntry.type = "assistant" /\ Iterate

\* An entry of any other type, or the value null, on which line 382 throws.
ScanOther ==
    /\ Scanning
    /\ ~IsEntry(NextEntry) \/ NextEntry.type \notin {"user", "assistant"}
    /\ Iterate

\* Lines 445-460: the last turn is pushed and the function returns.
ScanReturn ==
    /\ ~pscan.returned
    /\ ~pscan.st.threw
    /\ pscan.pos = Len(Entries)
    /\ LET st == pscan.st IN
       pscan' = [pscan EXCEPT
                   !.returned = TRUE,
                   !.st = [st EXCEPT
                             !.turns = IF st.cur # <<>>
                                          /\ st.cur[1].fileChanges # <<>>
                                       THEN Append(st.turns, st.cur[1])
                                       ELSE st.turns]]
    /\ UNCHANGED <<plog, pout>>
    /\ UNCHANGED serverVars

ScanNext ==
    \/ ScanHumanMessage
    \/ ScanToolResult
    \/ ScanAssistant
    \/ ScanOther
    \/ ScanReturn

InitScan == ServerQuiet /\ ScanInitial

SpecScan == InitScan /\ [][ScanNext]_vars

----------------------------------------------------------------------------
(* Properties of the session list and of the log files *)

LatestIn(sessions) == {i \in DOMAIN sessions : sessions[i].isLatest}

\* The session file is among the most recently modified ones.
NewestSession(sessionId) ==
    /\ sessionId \in Sessions
    /\ files[sessionId].exists
    /\ \A other \in Sessions :
          files[other].exists => files[other].mtime <= files[sessionId].mtime

\* C1: whenever the project holds at least one session file, the list that
\* getAllSessionMetadata returns marks exactly one session as latest, and no
\* session file has a greater mtime than the marked one.
C1_ExactlyOneLatest ==
    (sent.type = "sessions" /\ \E sid \in Sessions : files[sid].exists) =>
        /\ Cardinality(LatestIn(sent.sessions)) = 1
        /\ \A i \in LatestIn(sent.sessions) :
              /\ NewestSession(sent.sessions[i].sessionId)
              /\ sent.sessions[i].mtime = files[sent.sessions[i].sessionId].mtime

\* The list of two sessions in which the one readdir lists last is newer.
C1_Witness ==
    /\ sent.type = "sessions"
    /\ Len(sent.sessions) = 2
    /\ sent.sessions[1].sessionId = "s2"
    /\ sent.sessions[1].mtime > sent.sessions[2].mtime
    /\ sent.sessions[1].isLatest

\* C2: no step of the server (list, load, revert, restart) changes the
\* content of a session log file or creates or deletes one.
C2_SessionLogsReadOnly ==
    [][\A sid \in Sessions :
          /\ files'[sid].log = files[sid].log
          /\ files'[sid].exists = files[sid].exists]_vars

\* A revert has just been acknowledged, after a session was loaded.
C2_Witness ==
    /\ sent.type = "revertSuccess"
    /\ sent.changeId \in revertedChanges
    /\ loads > 0
    /\ \E sid \in Sessions : files[sid].exists /\ files[sid].log # <<>>

\* The log with every line that is not a structured record removed.
WellFormed(log) == SelectSeq(log, LAMBDA l : l.kind = "entry")

\* C3: parseLogFile and getSessionWithTurns produce from a log what they
\* produce from the same log with every line that fails to parse as a
\* structured record removed.
C3_MalformedLinesSkipped ==
    /\ pout.flatDone => pout.flat = parseLogFile(WellFormed(plog))
    /\ pout.turnsDone =>
          pout.turns = buildTurns("s1", WellFormed(plog), pout.turns.isLatest,
                                  Now)

----------------------------------------------------------------------------
(* Properties of canRevert and of reverts *)

LoadResponses == {"sessionTurns", "sessionChanges", "changes"}

LedgerUnchanged ==
    /\ revertedChanges' = revertedChanges
    /\ stateFile' = stateFile

ReadOrEmpty(file) == IF file.exists THEN file.content ELSE Empty

\* The ledger holds the change of c's request, or its record is marked as
\* not revertable.
Unrevertable(c) ==
    ~req[c].change.canRevert \/ req[c].change.id \in revertedChanges

\* C4: in a response for a session that is not the latest, every change has
\* canRevert = FALSE whatever the ledger holds; a change with canRevert = TRUE
\* belongs to the latest session and its id is not in the ledger.
C4_CanRevertOnlyLatestUnreverted ==
    sent.type \in LoadResponses =>
        \A i \in DOMAIN sent.changes :
            /\ (sent.type # "changes" /\ ~NewestSession(sent.sessionId))
                  => ~sent.changes[i].canRevert
            /\ sent.changes[i].canRevert =>
                  /\ sent.type # "changes"
                  /\ NewestSession(sent.sessionId)
                  /\ sent.changes[i].id \notin revertedChanges

\* The turns of a session that is no longer the latest, loaded while the
\* ledger holds a revert.
C4_Witness ==
    /\ sent.type = "sessionTurns"
    /\ ~NewestSession(sent.sessionId)
    /\ sent.changes # <<>>
    /\ revertedChanges # {}

\* C5: a revert request for a change that is not revertable (its record says
\* so, or the ledger holds it) ends in a revertError sent to the caller, and
\* none of its steps changes the working tree or the ledger.
C5_RejectedRevertChangesNothing ==
    [][~Restart =>
        \A c \in clients :
            /\ (req[c].pc = "called" /\ Unrevertable(c) /\ req'[c] # req[c]) =>
                  /\ req'[c].pc = "threw"
                  /\ req'[c].error = "Cannot revert"
                  /\ disk' = disk
                  /\ LedgerUnchanged
            /\ (/\ req[c].pc = "threw"
                /\ req[c].error = "Cannot revert"
                /\ req'[c] # req[c]) =>
                  /\ sent'.type = "revertError"
                  /\ sent'.to = c
                  /\ sent'.error = "Cannot revert"
                  /\ disk' = disk
                  /\ LedgerUnchanged]_vars

\* The rejection of a revert has just been reported, and no revert was
\* ever applied.
C5_Witness ==
    /\ sent.type = "revertError"
    /\ sent.error = "Cannot revert"
    /\ changes # <<>>
    /\ revertedChanges = {}

\* C6: a change the ledger holds is delivered with canRevert = FALSE by every
\* load, no revert request for it reaches the filesystem, and neither the
\* ledger in memory nor the ledger on disk ever loses an entry, a restart
\* included.
C6_RevertedStaysUnrevertable ==
    /\ [](/\ sent.type \in LoadResponses =>
                \A i \in DOMAIN sent.changes :
                    sent.changes[i].id \in revertedChanges
                        => ~sent.changes[i].canRevert
          /\ \A c \in clients :
                req[c].pc = "writing" =>
                    req[c].change.id \notin revertedChanges
          /\ stateFile \subseteq revertedChanges)
    /\ [][/\ revertedChanges \subseteq revertedChanges'
          /\ stateFile \subseteq stateFile']_vars

\* A load delivers a change that was reverted before.
C6_Witness ==
    /\ sent.type \in LoadResponses
    /\ \E i \in DOMAIN sent.changes :
          /\ sent.changes[i].id \in revertedChanges
          /\ sent.changes[i].id \in stateFile
          /\ sent.changes[i].isLatestSession = "true"

\* The stages of a revert from the first filesystem operation on.
Applying == {"writing", "recording", "returned"}

\* C7: of the revert requests in progress for one change id at most one is at
\* or past its filesystem operation, and none starts it once the ledger holds
\* the id.
C7_AtMostOneRevertApplies ==
    /\ \A c, d \in clients :
          (c # d /\ req[c].pc \in Applying /\ req[d].pc \in Applying)
              => req[c].change.id # req[d].change.id
    /\ \A c \in clients :
          req[c].pc = "writing" => req[c].change.id \notin revertedChanges

\* Two requests for one id, both holding a record marked revertable: one has
\* been applied and recorded, the other was rejected.
C7_Witness ==
    \E c, d \in clients :
        /\ c # d
        /\ req[c].changeId = req[d].changeId
        /\ req[c].pc = "returned"
        /\ req[d].pc = "threw"
        /\ req[d].error = "Cannot revert"
        /\ req[d].change.canRevert


\* The working tree shows the 'before' snapshot of the change at its path.
Restored(d, change) ==
    change.filePath \in Paths =>
        ReadOrEmpty(d[change.filePath]) = change.oldContent

\* C8: a failed filesystem operation leaves the ledger, in memory and on
\* disk, and the working tree as they were and is reported to the caller as a
\* revertError; an id enters the ledger only by the step of a request whose
\* filesystem operation has been applied.
C8_AllOrNothing ==
    /\ [](\A c \in clients :
             req[c].pc = "recording" => Restored(disk, req[c].change))
    /\ [][/\ \A id \in (revertedChanges' \ revertedChanges)
                          \cup (stateFile' \ stateFile) :
                \E c \in clients :
                    /\ req[c].pc = "recording"
                    /\ req[c].change.id = id
                    /\ req'[c].pc = "returned"
          /\ ~Restart =>
                \A c \in clients :
                    /\ (req[c].pc = "writing" /\ req'[c].pc = "threw") =>
                          /\ req'[c].error = "I/O failure"
                          /\ disk' = disk
                          /\ LedgerUnchanged
                    /\ (/\ req[c].pc = "threw"
                        /\ req[c].error = "I/O failure"
                        /\ req'[c] # req[c]) =>
                          /\ sent'.type = "revertError"
                          /\ sent'.to = c
                          /\ sent'.error = "I/O failure"
                          /\ LedgerUnchanged]_vars

\* The failure of a revert's filesystem operation has just been reported and
\* the ledger is empty.
C8_Witness ==
    /\ sent.type = "revertError"
    /\ sent.error = "I/O failure"
    /\ changes # <<>>
    /\ revertedChanges = {}
    /\ stateFile = {}

\* C9: the filesystem operation of a revert leaves at the target path exactly
\* the 'before' snapshot of the record held for the requested id, and leaves
\* the other paths alone; the record of a first-occurrence edit foo -> bar of
\* "foo foo" has the result "bar foo", so its revert restores "foo foo".
C9_RevertRestoresBefore ==
    /\ [](\A i \in DOMAIN changes :
             (changes[i].type = "edit" /\ changes[i].oldContent = FooFoo)
                 => changes[i].newContent = BarFoo)
    /\ [][\A c \in clients :
             (req[c].pc = "writing" /\ req'[c].pc = "recording") =>
                 /\ req[c].change.id = req[c].changeId
                 /\ Restored(disk', req[c].change)
                 /\ \A p \in Paths \ {req[c].change.filePath} :
                       disk'[p] = disk[p]]_vars

\* The edit of "foo foo" has been reverted: the file read "bar foo" when the
\* session was loaded and reads "foo foo" now.
C9_Witness ==
    \E c \in clients :
        /\ req[c].pc = "recording"
        /\ req[c].change.type = "edit"
        /\ req[c].change.oldContent = FooFoo
        /\ req[c].change.newContent = BarFoo
        /\ req[c].change.filePath = "g"
        /\ disk["g"] = File(FooFoo)

\* The request of c is for a creation whose record is marked revertable.
OfCreation(c) ==
    /\ req[c].change.oldContent = Empty
    /\ req[c].change.canRevert

----------------------------------------------------------------------------
(* Staleness of the records the server keeps *)

\* The session a record was loaded for: getSessionChanges sets sessionId, the
\* turn view carries the session in the id.
OwnerOf(change) ==
    IF change.sessionId # "" THEN change.sessionId ELSE change.id[1]

\* C11: the filesystem operation of a revert is applied only to a change
\* whose session is the latest one when the operation is applied.
C11_RevertOnlyInLatestSession ==
    [][\A c \in clients :
          (req[c].pc = "writing" /\ req'[c].pc = "recording")
              => NewestSession(OwnerOf(req[c].change))]_vars

----------------------------------------------------------------------------
(* Properties of the turn view *)

\* C12: every turn getSessionWithTurns returns has at least one file change.
C12_EmittedTurnsHaveChanges ==
    pout.turnsDone =>
        \A i \in DOMAIN pout.turns.turns :
            pout.turns.turns[i].fileChanges # <<>>

\* The first of two human messages led to no file change: the only turn
\* returned is the second one.
C12_Witness ==
    /\ pout.turnsDone
    /\ Len(pout.turns.turns) = 1
    /\ pout.turns.turns[1].id = TurnId("s1", 2)
    /\ pout.turns.turns[1].userMessage # NoMessage

\* A file change without its id, with the user message it is shown under.
Attributed(msg, change) ==
    [userMessage |-> msg, timestamp |-> change.timestamp,
     type |-> change.type, filePath |-> change.filePath,
     newContent |-> change.newContent, changes |-> change.changes]

\* The file changes of the entries in log order, each with the message of the
\* last genuine user entry before it (msg is the message so far).
RECURSIVE AttributedInLog(_, _)
AttributedInLog(entries, msg) ==
    IF entries = <<>> THEN <<>>
    ELSE LET e == Head(entries)
             msg2 == IF e.type = "user" /\ ~isToolResultEntry(e)
                     THEN extractUserMessage(e) ELSE msg
             chs == IF e.type = "assistant"
                    THEN extractAllFileChanges(e, TurnId("", 0), FALSE)
                    ELSE <<>>
         IN [i \in 1..Len(chs) |-> Attributed(msg2, chs[i])]
            \o AttributedInLog(Tail(entries), msg2)

\* The file changes of the turns in order, each with the message of its turn.
RECURSIVE AttributedInTurns(_)
AttributedInTurns(turns) ==
    IF turns = <<>> THEN <<>>
    ELSE [i \in 1..Len(Head(turns).fileChanges) |->
            Attributed(Head(turns).userMessage, Head(turns).fileChanges[i])]
         \o AttributedInTurns(Tail(turns))

\* C13: the file changes of the returned turns are those of the log, in log
\* order, each in a turn whose user message is the last genuine human message
\* before the assistant entry of the change ('No message' when there is none).
C13_ChangesAttributedToCausingTurn ==
    (pout.turnsDone /\ pout.turns.ok) =>
        AttributedInTurns(pout.turns.turns)
            = AttributedInLog(ParsedEntries(plog), NoMessage)

\* Two turns with different messages, each with the change that followed its
\* message.
C13_Witness ==
    /\ pout.turnsDone
    /\ Len(pout.turns.turns) = 2
    /\ pout.turns.turns[1].userMessage # pout.turns.turns[2].userMessage
    /\ pout.turns.turns[2].userMessage # NoMessage

UserEntries(log) ==
    {log[i] : i \in {j \in DOMAIN log :
                        log[j].kind = "entry" /\ log[j].type = "user"}}

HasBlock(entry, type) == \E i \in DOMAIN entry.blocks : entry.blocks[i].type = type

\* A text block whose text is more than whitespace.
HasWrittenText(entry) ==
    \E i \in DOMAIN entry.blocks :
        /\ entry.blocks[i].type = "text"
        /\ \E k \in DOMAIN entry.blocks[i].text : entry.blocks[i].text[k] # "_"

\* C14 as stated: a user entry is a tool-result echo exactly when its content
\* is an array with no text block and at least one tool_result block.
C14_EchoIffNoTextBlock ==
    \A e \in UserEntries(plog) :
        isToolResultEntry(e)
            <=> (e.form = "array" /\ ~HasBlock(e, "text")
                 /\ HasBlock(e, "tool_result"))

\* C14: a user entry is a tool-result echo exactly when its content is an
\* array with at least one tool_result block and no text block holding more
\* than whitespace; string content and array content with written text are
\* genuine.
C14_EchoIffNoWrittenText ==
    \A e \in UserEntries(plog) :
        /\ isToolResultEntry(e)
              <=> (e.form = "array" /\ ~HasWrittenText(e)
                   /\ HasBlock(e, "tool_result"))
        /\ e.form = "string" => ~isToolResultEntry(e)

\* An entry with a tool_result and a text block of whitespace came first and
\* opened no turn: the change after it is in a synthesized turn.
C14_Witness ==
    /\ pout.turnsDone
    /\ Len(plog) = 2
    /\ plog[1] \in UserEntries(plog)
    /\ HasBlock(plog[1], "text") /\ HasBlock(plog[1], "tool_result")
    /\ ~HasWrittenText(plog[1])
    /\ Len(pout.turns.turns) = 1
    /\ pout.turns.turns[1].timestamp = plog[2].timestamp
    /\ pout.turns.turns[1].timestamp # plog[1].timestamp

----------------------------------------------------------------------------
(* Properties of the change records *)

\* The file changes of the turns, in order.
RECURSIVE ChangesOfTurns(_)
ChangesOfTurns(turns) ==
    IF turns = <<>> THEN <<>>
    ELSE Head(turns).fileChanges \o ChangesOfTurns(Tail(turns))

\* C15: no change record returned by parseLogFile or by getSessionWithTurns
\* has a missing or empty file path.
C15_NoChangeWithoutPath ==
    /\ pout.flatDone =>
          \A i \in DOMAIN pout.flat : pout.flat[i].filePath # ""
    /\ pout.turnsDone =>
          \A i \in DOMAIN ChangesOfTurns(pout.turns.turns) :
              ChangesOfTurns(pout.turns.turns)[i].filePath # ""

Distinct(seq) ==
    \A i, j \in DOMAIN seq : i # j => seq[i].id # seq[j].id

\* C16: the change records returned for one log have pairwise distinct ids,
\* in the list of parseLogFile and over all turns of getSessionWithTurns.
C16_ChangeIdsDistinct ==
    /\ pout.flatDone => Distinct(pout.flat)
    /\ pout.turnsDone => Distinct(ChangesOfTurns(pout.turns.turns))

\* What the change of a record is, apart from its id and its session.
Payload(ts, type, path, content, ops) ==
    [timestamp |-> ts, type |-> type, filePath |-> path,
     newContent |-> content, changes |-> ops]

PayloadOf(change) ==
    Payload(change.timestamp, change.type, change.filePath,
            change.newContent, change.changes)

\* The payloads the tool invocations of an entry stand for, block by block.
RECURSIVE InvocationPayloads(_, _)
InvocationPayloads(blocks, ts) ==
    IF blocks = <<>> THEN <<>>
    ELSE LET b == Head(blocks)
             one ==
                 IF b.type # "tool_use" \/ b.file_path = "" THEN <<>>
                 ELSE IF b.name = "Write"
                 THEN <<Payload(ts, "write", b.file_path, b.content, <<>>)>>
                 ELSE IF b.name = "Edit"
                 THEN <<Payload(ts, "edit", b.file_path, Empty,
                                <<EditOp(b.edits[1].oldString,
                                         b.edits[1].newString,
                                         b.edits[1].replaceAll)>>)>>
                 ELSE IF b.name = "MultiEdit"
                 THEN <<Payload(ts, "edit", b.file_path, Empty, b.edits)>>
                 ELSE <<>>
         IN one \o InvocationPayloads(Tail(blocks), ts)

RECURSIVE LogPayloads(_)
LogPayloads(entries) ==
    IF entries = <<>> THEN <<>>
    ELSE (IF Head(entries).type = "assistant" /\ Head(entries).form = "array"
          THEN InvocationPayloads(Head(entries).blocks, Head(entries).timestamp)
          ELSE <<>>)
         \o LogPayloads(Tail(entries))

\* C17: the changes getSessionWithTurns returns are, in log order, one per
\* Write, Edit or MultiEdit invocation with a file path: a write with the
\* declared content, an edit with the single operation of an Edit, an edit
\* with the edits of a MultiEdit as they stand; other tools give nothing.
C17_ChangeFollowsToolKind ==
    (pout.turnsDone /\ pout.turns.ok) =>
        LET got == ChangesOfTurns(pout.turns.turns) IN
        [i \in DOMAIN got |-> PayloadOf(got[i])]
            = LogPayloads(ParsedEntries(plog))

\* A log with a Write, an Edit next to a Read, and a MultiEdit of two edits.
C17_Witness ==
    /\ pout.turnsDone /\ pout.turns.ok
    /\ \E i, j, k \in DOMAIN ChangesOfTurns(pout.turns.turns) :
          LET got == ChangesOfTurns(pout.turns.turns) IN
          /\ got[i].type = "write" /\ got[i].newContent # Empty
          /\ got[j].type = "edit" /\ Len(got[j].changes) = 1
          /\ got[k].type = "edit" /\ Len(got[k].changes) = 2
    /\ \E i \in DOMAIN plog : \E n \in DOMAIN plog[i].blocks :
          /\ plog[i].blocks[n].type = "tool_use"
          /\ plog[i].blocks[n].name \notin FileTools

----------------------------------------------------------------------------
(* Properties of the responses to load requests *)

\* C18: in a sessionChanges response no change is followed by a newer one.
C18_SessionChangesNewestFirst ==
    sent.type = "sessionChanges" =>
        \A i \in 1..(Len(sent.changes) - 1) :
            sent.changes[i].timestamp >= sent.changes[i + 1].timestamp

\* A response with two changes that the log holds oldest first.
C18_Witness ==
    /\ sent.type = "sessionChanges"
    /\ Len(sent.changes) = 2
    /\ sent.changes[1].timestamp > sent.changes[2].timestamp
    /\ Len(changes) >= 2
    /\ changes[Len(changes) - 1].timestamp < changes[Len(changes)].timestamp

\* C19: a getSessionTurns or getSessionChanges request for a session that
\* has no file is answered with an error, and the change list, the ledger,
\* the working tree and the session files stay as they were.
C19_MissingSessionIsLookupError ==
    [][\A c \in Clients : \A sid \in Sessions :
          ((HandleGetSessionTurns(c, sid) \/ HandleGetSessionChanges(c, sid))
           /\ ~(dirExists /\ files[sid].exists))
              => /\ sent'.type = "error"
                 /\ sent'.to = c
                 /\ sent'.error = "Session file not found"
                 /\ UNCHANGED <<changes, revertedChanges, stateFile, disk,
                                files, dirExists>>]_vars

\* The error is the answer while changes of another session are loaded.
C19_Witness ==
    /\ sent.type = "error"
    /\ sent.error = "Session file not found"
    /\ changes # <<>>
    /\ \E sid \in Sessions : ~files[sid].exists

\* C20: while the project's log directory does not exist, a request for the
\* sessions is answered with the empty list and not with an error.
C20_NoLogDirectoryListsNothing ==
    [][\A c \in Clients :
          (HandleGetSessions(c) /\ ~dirExists)
              => /\ sent'.type = "sessions"
                 /\ sent'.to = c
                 /\ sent'.sessions = <<>>
                 /\ sent'.error = ""]_vars

\* The empty list has been sent and there is no log directory.
C20_Witness ==
    /\ ~dirExists
    /\ sent.type = "sessions"
    /\ sent.sessions = <<>>

----------------------------------------------------------------------------
(* Properties of the steps of the turn reconstructor *)

\* The turns the scan holds: the emitted ones and the open one.
HeldTurns(st) ==
    {st.turns[i] : i \in DOMAIN st.turns} \cup {st.cur[i] : i \in DOMAIN st.cur}

\* C21: a genuine human message emits the open turn exactly when it has file
\* changes, and opens a turn with the message's text, no changes, no assistant
\* text and an id whose number is above the counter, which bounds the number
\* of every turn opened before and never decreases.
C21_HumanMessageOpensFreshTurn ==
    /\ [](\A t \in HeldTurns(pscan.st) :
            t.id[1] = "s1" /\ t.id[2] \in 1..pscan.st.counter)
    /\ [][/\ pscan'.st.counter >= pscan.st.counter
          /\ ScanHumanMessage =>
               LET st == pscan.st
                   st2 == pscan'.st
                   e == NextEntry
               IN /\ st2.turns = IF st.cur # <<>> /\ st.cur[1].fileChanges # <<>>
                                 THEN Append(st.turns, st.cur[1])
                                 ELSE st.turns
                  /\ Len(st2.cur) = 1
                  /\ st2.cur[1].id[1] = "s1"
                  /\ st2.cur[1].id[2] > st.counter
                  /\ st2.cur[1].userMessage = extractUserMessage(e)
                  /\ (e.form = "string" /\ Trim(e.text) # Empty)
                        => st2.cur[1].userMessage = Trim(e.text)
                  /\ st2.cur[1].fileChanges = <<>>
                  /\ st2.cur[1].assistantMessage = Empty]_vars

\* A second human message has closed a turn with changes and opened the next.
C21_Witness ==
    /\ ~pscan.returned
    /\ Len(pscan.st.turns) = 1
    /\ pscan.st.cur # <<>>
    /\ pscan.st.cur[1].id = TurnId("s1", 2)
    /\ pscan.st.cur[1].userMessage # NoMessage
    /\ pscan.st.cur[1].fileChanges = <<>>

\* A user entry that only returns the result of a tool.
ToolResultOnly(e) ==
    /\ e.kind = "entry" /\ e.type = "user" /\ e.form = "array"
    /\ HasBlock(e, "tool_result")
    /\ ~HasWrittenText(e)

PayloadsOf(chs) == [i \in DOMAIN chs |-> PayloadOf(chs[i])]

\* C22: an iteration on a tool-result echo leaves the open turn, the counter
\* and the emitted turns as they are, and the changes of an assistant entry
\* right after the echo go to the turn that was open before it.
C22_EchoChangesNothing ==
    [][(Scanning /\ pscan'.pos = pscan.pos + 1) =>
          LET st == pscan.st
              st2 == pscan'.st
              e == NextEntry
          IN /\ ToolResultOnly(e) => st2 = st
             /\ (/\ pscan.pos >= 1
                 /\ ToolResultOnly(Entries[pscan.pos])
                 /\ st.cur # <<>>
                 /\ e.kind = "entry" /\ e.type = "assistant"
                 /\ e.form = "array")
                   => /\ st2.turns = st.turns
                      /\ st2.counter = st.counter
                      /\ Len(st2.cur) = 1
                      /\ st2.cur[1].id = st.cur[1].id
                      /\ st2.cur[1].userMessage = st.cur[1].userMessage
                      /\ PayloadsOf(st2.cur[1].fileChanges)
                            = PayloadsOf(st.cur[1].fileChanges)
                              \o InvocationPayloads(e.blocks, e.timestamp)]_vars

\* A human message, an echo, then an assistant entry whose change is in the
\* turn of the human message.
C22_Witness ==
    /\ pscan.pos = 3
    /\ Genuine(Entries[1])
    /\ ToolResultOnly(Entries[2])
    /\ pscan.st.counter = 1
    /\ pscan.st.turns = <<>>
    /\ pscan.st.cur # <<>>
    /\ pscan.st.cur[1].userMessage # NoMessage
    /\ pscan.st.cur[1].fileChanges # <<>>

\* C23: an assistant entry with array content that brings file changes or
\* text while no turn is open opens a turn with the placeholder message, and
\* that turn holds the changes and the text of the entry.
C23_EarlyContentGetsPlaceholderTurn ==
    [][(/\ Scanning /\ pscan'.pos = pscan.pos + 1
        /\ pscan.st.cur = <<>>
        /\ NextEntry.kind = "entry" /\ NextEntry.type = "assistant"
        /\ NextEntry.form = "array"
        /\ \/ InvocationPayloads(NextEntry.blocks, NextEntry.timestamp) # <<>>
           \/ HasWrittenText(NextEntry))
          => LET st == pscan.st
                 st2 == pscan'.st
                 e == NextEntry
             IN /\ st2.turns = st.turns
                /\ Len(st2.cur) = 1
                /\ st2.cur[1].userMessage = NoMessage
                /\ st2.cur[1].id \notin {t.id : t \in HeldTurns(st)}
                /\ PayloadsOf(st2.cur[1].fileChanges)
                      = InvocationPayloads(e.blocks, e.timestamp)
                /\ HasWrittenText(e) => st2.cur[1].assistantMessage # Empty]_vars

\* The log starts with an assistant entry that changes a file: its change is
\* in an open turn with the placeholder message.
C23_Witness ==
    /\ pscan.pos = 1
    /\ Entries[1].type = "assistant"
    /\ pscan.st.cur # <<>>
    /\ pscan.st.cur[1].userMessage = NoMessage
    /\ pscan.st.cur[1].fileChanges # <<>>

\* seq continues start.
Extends(seq, start) ==
    Len(start) <= Len(seq) /\ SubSeq(seq, 1, Len(start)) = start

\* C24: a turn is emitted behind the turns emitted before it and was opened
\* after all of them, and the changes of an entry are put behind the changes
\* its turn already has, in the order of the entry's content blocks.
C24_TurnsAndChangesInLogOrder ==
    [][LET st == pscan.st
           st2 == pscan'.st
       IN /\ Extends(st2.turns, st.turns)
          /\ Len(st2.turns) <= Len(st.turns) + 1
          /\ Len(st2.turns) = Len(st.turns) + 1 =>
                /\ st.cur # <<>>
                /\ st2.turns[Len(st2.turns)] = st.cur[1]
                /\ \A i \in DOMAIN st.turns :
                      st.turns[i].id[2] < st.cur[1].id[2]
          /\ (Scanning /\ pscan'.pos = pscan.pos + 1 /\ st2.cur # <<>>
              /\ NextEntry.kind = "entry" /\ NextEntry.type = "assistant")
                => LET had == IF st.cur = <<>> THEN <<>>
                              ELSE st.cur[1].fileChanges
                   IN /\ Extends(st2.cur[1].fileChanges, had)
                      /\ PayloadsOf(SubSeq(st2.cur[1].fileChanges,
                                           Len(had) + 1,
                                           Len(st2.cur[1].fileChanges)))
                            = LogPayloads(<<NextEntry>>)]_vars

\* Two turns were returned, and one of them has the two changes of one entry.
C24_Witness ==
    /\ pscan.returned
    /\ Len(pscan.st.turns) = 2
    /\ \E i \in DOMAIN pscan.st.turns :
          /\ Len(pscan.st.turns[i].fileChanges) = 2
          /\ pscan.st.turns[i].fileChanges[1].filePath
                # pscan.st.turns[i].fileChanges[2].filePath

\* C25: the id of every change of a returned turn starts with the id of that
\* turn.
C25_ChangeIdStartsWithTurnId ==
    pout.turnsDone =>
        \A i \in DOMAIN pout.turns.turns :
            LET turn == pout.turns.turns[i] IN
            \A k \in DOMAIN turn.fileChanges :
                TurnId(turn.fileChanges[k].id[1], turn.fileChanges[k].id[2])
                    = turn.id

----------------------------------------------------------------------------
(* Properties of the processed changes *)

\* The content change k of the batch starts from: what the nearest earlier
\* change of the batch to the same path left, or else what is on disk.
ChainedBefore(batch, k) ==
    LET p == batch[k].filePath
        earlier == {j \in 1..(k - 1) : batch[j].filePath = p}
    IN IF earlier # {}
       THEN batch[CHOOSE j \in earlier : \A i \in earlier : i <= j].newContent
       ELSE IF disk[p].exists THEN disk[p].content ELSE Empty

Chained(batch) ==
    \A k \in DOMAIN batch :
        batch[k].filePath \in Paths
            => batch[k].oldContent = ChainedBefore(batch, k)

\* The processed changes the last sessionChanges response was made from, in
\* the order in which they were processed.
LastFlatBatch ==
    SubSeq(changes, Len(changes) - Len(sent.changes) + 1, Len(changes))

\* C26: the 'before' content of a processed change is the resulting content
\* of the nearest earlier change to its path in its batch, or else the content
\* on disk (empty for a missing file); a batch is the changes of one turn for
\* getSessionTurns and the changes of the session for getSessionChanges.
C26_BeforeIsChainedWithinBatch ==
    /\ sent.type = "sessionTurns" =>
          \A i \in DOMAIN sent.turns : Chained(sent.turns[i].parsedChanges)
    /\ sent.type = "sessionChanges" => Chained(LastFlatBatch)

\* Two turns change g: the second turn's change starts from the content on
\* disk, not from what the first turn wrote.
C26_Witness ==
    /\ sent.type = "sessionTurns"
    /\ Len(sent.turns) = 2
    /\ \E i \in DOMAIN sent.turns[1].parsedChanges :
          /\ sent.turns[1].parsedChanges[i].filePath = "g"
          /\ sent.turns[1].parsedChanges[i].newContent # disk["g"].content
    /\ sent.turns[2].parsedChanges[1].filePath = "g"
    /\ sent.turns[2].parsedChanges[1].oldContent = disk["g"].content

----------------------------------------------------------------------------
(* Properties relating the views of a log *)

\* The places of the log that hold a Write, Edit or MultiEdit invocation with
\* a file path in an assistant entry with array content: line and block.
Invocations(log) ==
    UNION {{<<i, n>> : n \in {m \in DOMAIN log[i].blocks :
                                /\ log[i].blocks[m].type = "tool_use"
                                /\ log[i].blocks[m].name \in FileTools
                                /\ log[i].blocks[m].file_path # ""}} :
           i \in {j \in DOMAIN log :
                    /\ log[j].kind = "entry" /\ log[j].type = "assistant"
                    /\ log[j].form = "array"}}

\* Timestamp, kind and target path of the invocation at a place, and of a
\* change record.
KeyAt(log, o) ==
    <<log[o[1]].timestamp,
      IF log[o[1]].blocks[o[2]].name = "Write" THEN "write" ELSE "edit",
      log[o[1]].blocks[o[2]].file_path>>

KeyOf(change) == <<change.timestamp, change.type, change.filePath>>

Occurrences(seq, key) == Cardinality({i \in DOMAIN seq : KeyOf(seq[i]) = key})

C28_ViewsAgree ==
    (pout.metaDone /\ pout.flatDone /\ pout.turnsDone /\ pout.turns.ok) =>
        LET inTurns == ChangesOfTurns(pout.turns.turns)
            keys == {KeyOf(pout.flat[i]) : i \in DOMAIN pout.flat}
                    \cup {KeyOf(inTurns[i]) : i \in DOMAIN inTurns}
        IN /\ pout.fileCount = Len(pout.flat)
           /\ Len(pout.flat) = Len(inTurns)
           /\ \A key \in keys :
                 Occurrences(pout.flat, key) = Occurrences(inTurns, key)

----------------------------------------------------------------------------
(* Properties of the lookup of a change by handleRevert *)

\* The positions of the change list that hold a record with the id.
PositionsOf(id) == {i \in DOMAIN changes : changes[i].id = id}

\* C29: the record handleRevert hands to the tracker is the one the most
\* recent processing of its id added to the change list.
C29_RevertUsesNewestRecord ==
    [][\A c \in clients :
          (req[c].pc = "idle" /\ req'[c].pc = "called")
              => \E last \in PositionsOf(req'[c].changeId) :
                    /\ \A i \in PositionsOf(req'[c].changeId) : i <= last
                    /\ req'[c].change = changes[last]]_vars

\* C30: a revert request for a change id that a client has been sent in a
\* sessionTurns, sessionChanges or changes response is never answered with
\* 'Change not found'.
C30_ShownIdsAreFound ==
    [][\A c \in clients : \A id \in shown :
          HandleRevert(c, id) => sent'.error # "Change not found"]_vars

====
